---- MODULE Spec2Model ----
(***************************************************************************)
(* State-machine model of symbulate's Markov chain simulators              *)
(* (src/symbulate/markov_chains.py) and of the Exponential distribution    *)
(* they draw holding times from (src/symbulate/distributions.py).          *)
(*                                                                         *)
(* Numbers.  Generator entries are Python integers.  Every quotient the    *)
(* code forms (p / rate, times[n] / rate) has a divisor in 1..MaxEntry, so *)
(* quotients are kept exactly as integers in units of 1/Scale, where Scale *)
(* is a common multiple of 1..MaxEntry.  Probabilities are in the same     *)
(* unit (Scale stands for probability 1).  Dividing by a rate of 0 raises  *)
(* ZeroDivisionError, as Python does for its own numbers.                  *)
(*                                                                         *)
(* Random numbers.  numpy's process-wide generator is the variable rng: a  *)
(* deterministic generator that np.random.seed resets and every draw       *)
(* advances by one step.                                                   *)
(*                                                                         *)
(* Sequences.  An outcome's sequences are infinite.  Indexes 0..MaxN are   *)
(* kept exactly; the value MaxN + 1 of the loop counter n stands for every *)
(* index beyond MaxN, where the holding draws repeat times[MaxN] and the   *)
(* state path is continued one seeded transition at a time.                *)
(***************************************************************************)
EXTENDS Integers, Sequences, FiniteSets, TLC

VARIABLES
    kind,              \* class of the object under construction
    generator_matrix,  \* self.generator_matrix
    initial_dist,      \* initial_dist
    state_labels,      \* state_labels (<<>> is None)
    transition_matrix, \* transition_matrix of the (embedded) MarkovChain
    error,             \* the exception the last operation raised
    rng,               \* state of numpy's process-wide generator
    seed,              \* seed captured by draw() of the current outcome
    times,             \* holding draws of the current outcome
    pc,                \* "new", "failed", "built", "idle", "loop"
    op,                \* the last operation started
    arg,               \* its time or index argument
    n,                 \* loop counter of the evaluation rule
    total_time,        \* accumulated holding time, in units of 1/Scale
    state,             \* local variable state of the evaluation rule
    result,            \* <<v>> when the last operation returned v, else <<>>
    prev,              \* <<t, n>> of the evaluation completed before this one
    path,              \* states visited by the last call of x(n)
    returned           \* first value returned for each index of this draw

vars == <<kind, generator_matrix, initial_dist, state_labels,
          transition_matrix, error, rng, seed, times, pc, op, arg, n,
          total_time, state, result, prev, path, returned>>

(* ------------------------------ bounds -------------------------------- *)
MaxEntry == 2
MaxN == 2
MaxDraw == 1
MaxT == 1
MaxSeed == 1
RngModulus == 8

Dims == {1, 2}

RECURSIVE Factorial(_)
Factorial(k) == IF k <= 1 THEN 1 ELSE k * Factorial(k - 1)

Scale == Factorial(MaxEntry)

(* ------------------------------ helpers ------------------------------- *)
Dim(v) == Cardinality(DOMAIN v)

RECURSIVE SumTo(_, _)
SumTo(row, j) == IF j < 0 THEN 0 ELSE row[j] + SumTo(row, j - 1)

Sum(row) == SumTo(row, Dim(row) - 1)

Min(a, b) == IF a < b THEN a ELSE b

Least(S) == CHOOSE x \in S : \A y \in S : x <= y

Div(a, b) == (a * Scale) \div b

NoError == [type |-> "none", msg |-> ""]

Raise(type, msg) == [type |-> type, msg |-> msg]

(* --------------------------- input domains ---------------------------- *)
Seeds == 0..MaxSeed

InitialDists(m) == {d \in [0..(m - 1) -> {0, Scale \div 2, Scale}] : Sum(d) = Scale}

TransitionMatrices(m) == [0..(m - 1) -> InitialDists(m)]

Generators(m) == [0..(m - 1) -> [0..(m - 1) -> (0 - MaxEntry)..MaxEntry]]

LabelChoices(m) == {<<>>, [i \in 0..(m - 1) |-> 10 + i]}

HoldingDraws == [0..MaxN -> 0..MaxDraw]

NoTimes == [i \in 0..MaxN |-> 0]

(* ------------------------ numpy's generator --------------------------- *)
Seeded(s) == s % RngModulus

NextRng(r) == (5 * r + 3) % RngModulus

\* np.random.choice raises ValueError unless the probabilities sum to 1
ValidP(p) == Sum(p) = Scale

ChoiceError == Raise("ValueError", "probabilities do not sum to 1")

\* np.random.choice(range(m), p = p) on the uniform draw u / RngModulus
Choice(p, u) == Least({j \in DOMAIN p : SumTo(p, j) * RngModulus > u * Scale})

\* np.random.exponential(scale = 1) on the uniform draw u / RngModulus
ExponentialQuantile(u) == (u * (MaxDraw + 1)) \div RngModulus

(* --------------------------- MarkovChain ------------------------------ *)
Label(s) == IF state_labels = <<>> THEN s ELSE state_labels[s]

SeedRngSkipped(r, s) == r

SeedRng(r, s) == Seeded(s)

RECURSIVE Steps(_, _, _)
Steps(p, r, k) ==
    IF k <= 0 THEN [path |-> p, rng |-> r, ok |-> TRUE]
    ELSE LET row == transition_matrix[p[Len(p)]]
             r2 == NextRng(r)
         IN  IF ~ValidP(row) THEN [path |-> p, rng |-> r, ok |-> FALSE]
             ELSE Steps(Append(p, Choice(row, r2)), r2, k - 1)

\* x(n): the states visited and the generator state x(n) leaves behind
x(k) ==
    LET r0 == SeedRng(rng, seed)
        r1 == NextRng(r0)
        s0 == Choice(initial_dist, r1)
    IN  Steps(<<s0>>, r1, k)

StateOf(run) == run.path[Len(run.path)]

(* -------------------- ContinuousTimeMarkovChain ----------------------- *)
RowError(g, i) ==
    LET row == g[i]
        bad == {j \in DOMAIN row : IF j = i THEN row[j] > 0 ELSE row[j] < 0}
    IN  IF Sum(row) # 0 THEN "Rows of a generator matrix must sum to 0."
        ELSE IF bad = {} THEN "ok"
        ELSE IF Least(bad) = i
             THEN "Diagonal elements of a generator matrix cannot be positive."
             ELSE "Off-diagonal elements of a generator matrix cannot be negative."

check_generator(g) ==
    LET failing == {i \in DOMAIN g : RowError(g, i) # "ok"}
    IN  IF failing = {} THEN "ok" ELSE RowError(g, Least(failing))

Rate(g, s) == 0 - g[s][s]

\* p / rate is evaluated for a row as soon as it has an off-diagonal entry
RowDivides(g, i) == Dim(g) > 1

EmbeddedRow(g, i) ==
    [j \in DOMAIN g[i] |-> IF j # i THEN Div(g[i][j], Rate(g, i)) ELSE 0]

Embedded(g) == [i \in DOMAIN g |-> EmbeddedRow(g, i)]

TimesAt(k) == times[Min(k, MaxN)]

ExceedsOrEquals(total, t) == total >= t * Scale

\* total_time > t
Exceeds(total, t) == total > t * Scale

(* ------------------------------ Init ---------------------------------- *)
Init ==
    /\ kind = "none"
    /\ generator_matrix = <<>>
    /\ initial_dist = <<>>
    /\ state_labels = <<>>
    /\ transition_matrix = <<>>
    /\ error = NoError
    /\ rng = 0
    /\ seed = 0
    /\ times = NoTimes
    /\ pc = "new"
    /\ op = "none"
    /\ arg = 0
    /\ n = 0
    /\ total_time = 0
    /\ state = 0
    /\ result = <<>>
    /\ prev = <<>>
    /\ path = <<>>
    /\ returned = [i \in 0..MaxN |-> <<>>]

(* --------------------------- construction ----------------------------- *)
\* MarkovChain.__init__: nothing is validated
MarkovChain_init(tm, dist, labels) ==
    /\ pc = "new"
    /\ kind' = "MarkovChain"
    /\ transition_matrix' = tm
    /\ initial_dist' = dist
    /\ state_labels' = labels
    /\ pc' = "built"
    /\ UNCHANGED <<generator_matrix, error, rng, seed, times, op, arg, n,
                   total_time, state, result, prev, path, returned>>

\* ContinuousTimeMarkovChain.__init__ up to the embedded chain
CTMC_init(g, dist, labels) ==
    /\ pc = "new"
    /\ kind' = "ContinuousTimeMarkovChain"
    /\ generator_matrix' = g
    /\ initial_dist' = dist
    /\ state_labels' = labels
    /\ LET chk == check_generator(g)
           zero == {i \in DOMAIN g : Rate(g, i) = 0 /\ RowDivides(g, i)}
       IN  IF chk # "ok"
           THEN /\ error' = Raise("Exception", chk)
                /\ pc' = "failed"
                /\ UNCHANGED transition_matrix
           ELSE IF zero # {}
           THEN /\ error' = Raise("ZeroDivisionError", "division by zero")
                /\ pc' = "failed"
                /\ UNCHANGED transition_matrix
           ELSE /\ transition_matrix' = Embedded(g)
                /\ pc' = "built"
                /\ UNCHANGED error
    /\ UNCHANGED <<rng, seed, times, op, arg, n, total_time, state, result,
                   prev, path, returned>>

(* ------------------------------ drawing ------------------------------- *)
\* draw() of the process's probability space: one seed for the state path
\* and, for a continuous-time chain, one sequence of Exponential(1) draws
ProbSpace_draw(s, h) ==
    /\ pc = "built"
    /\ seed' = s
    /\ times' = h
    /\ pc' = "idle"
    /\ op' = "draw"
    /\ arg' = 0
    /\ n' = 0
    /\ total_time' = 0
    /\ result' = <<>>
    /\ prev' = <<>>
    /\ path' = <<>>
    /\ error' = NoError
    /\ returned' = [i \in 0..MaxN |-> <<>>]
    /\ UNCHANGED <<kind, generator_matrix, initial_dist, state_labels,
                   transition_matrix, rng, state>>

\* Exponential(1).draw(), at most once between two evaluations
ExponentialDraw ==
    /\ pc = "idle"
    /\ op # "Exponential"
    /\ rng' = NextRng(rng)
    /\ result' = <<ExponentialQuantile(rng')>>
    /\ op' = "Exponential"
    /\ arg' = 0
    /\ error' = NoError
    /\ n' = 0
    /\ total_time' = 0
    /\ prev' = <<>>
    /\ path' = <<>>
    /\ UNCHANGED <<kind, generator_matrix, initial_dist, state_labels,
                   transition_matrix, seed, times, pc, state, returned>>

(* ------------------------ MarkovChain queries ------------------------- *)
\* fun(x, n) of MarkovChain: x[n]
MarkovChain_fun(k) ==
    /\ pc = "idle"
    /\ kind = "MarkovChain"
    /\ op' = "x"
    /\ arg' = k
    /\ LET run == x(k)
           v == Label(StateOf(run))
       IN  /\ rng' = run.rng
           /\ path' = run.path
           /\ IF run.ok
              THEN /\ result' = <<v>>
                   /\ error' = NoError
                   /\ returned' = IF returned[k] = <<>>
                                  THEN [returned EXCEPT ![k] = <<v>>]
                                  ELSE returned
              ELSE /\ result' = <<>>
                   /\ error' = ChoiceError
                   /\ UNCHANGED returned
    /\ UNCHANGED <<kind, generator_matrix, initial_dist, state_labels,
                   transition_matrix, seed, times, pc, n, total_time, state,
                   prev>>

(* ------------------- ContinuousTimeMarkovChain.fun -------------------- *)
CTMC_fun_enter(t) ==
    /\ pc = "idle"
    /\ kind = "ContinuousTimeMarkovChain"
    /\ prev' = IF op = "at" /\ result # <<>> THEN <<arg, n>> ELSE <<>>
    /\ op' = "at"
    /\ arg' = t
    /\ total_time' = 0
    /\ n' = 0
    /\ result' = <<>>
    /\ error' = NoError
    /\ pc' = "loop"
    /\ UNCHANGED <<kind, generator_matrix, initial_dist, state_labels,
                   transition_matrix, rng, seed, times, state, path, returned>>

\* states[n] as the loop reads it: x(n) up to index MaxN, one more seeded
\* transition from the state and generator state of the previous iteration
\* beyond it
ReadState ==
    IF n <= MaxN THEN x(n) ELSE Steps(<<state>>, rng, 1)

\* one iteration of the while loop
LoopStep ==
    /\ pc = "loop"
    /\ LET run == ReadState
           s == StateOf(run)
           rate == Rate(generator_matrix, s)
       IN  /\ rng' = run.rng
           /\ IF ~run.ok
              THEN /\ error' = ChoiceError
                   /\ pc' = "idle"
                   /\ UNCHANGED <<total_time, n, result>>
              ELSE IF rate = 0
              THEN /\ error' = Raise("ZeroDivisionError", "division by zero")
                   /\ pc' = "idle"
                   /\ UNCHANGED <<total_time, n, result>>
              ELSE /\ total_time' = total_time + Div(TimesAt(n), rate)
                   /\ UNCHANGED error
                   /\ IF Exceeds(total_time', arg)
                      THEN /\ result' = <<Label(s)>>
                           /\ pc' = "idle"
                           /\ UNCHANGED n
                      ELSE /\ n' = Min(n + 1, MaxN + 1)
                           /\ UNCHANGED <<result, pc>>
           /\ state' = IF pc' = "loop" THEN s ELSE 0
    /\ UNCHANGED <<kind, generator_matrix, initial_dist, state_labels,
                   transition_matrix, seed, times, op, arg, prev, path,
                   returned>>

(* ------------------- JumpTimes and InterjumpTimes --------------------- *)
\* the value JumpTimes' fun returns at index k >= 1, where it divides
JumpTimesValue(k) ==
    k * Div(times[k], Rate(generator_matrix, StateOf(x(k))))

JumpTimes_fun(k) ==
    /\ pc = "idle"
    /\ kind = "ContinuousTimeMarkovChain"
    /\ op' = "JumpTimes"
    /\ arg' = k
    /\ IF k <= 0
       THEN /\ result' = <<0>>
            /\ error' = NoError
            /\ UNCHANGED rng
       ELSE LET run == x(k)
            IN  /\ rng' = run.rng
                /\ IF ~run.ok
                   THEN /\ error' = ChoiceError
                        /\ result' = <<>>
                   ELSE IF Rate(generator_matrix, StateOf(run)) = 0
                   THEN /\ error' = Raise("ZeroDivisionError", "division by zero")
                        /\ result' = <<>>
                   ELSE /\ result' = <<JumpTimesValue(k)>>
                        /\ error' = NoError
    /\ n' = 0
    /\ total_time' = 0
    /\ prev' = <<>>
    /\ UNCHANGED <<kind, generator_matrix, initial_dist, state_labels,
                   transition_matrix, seed, times, pc, state, path, returned>>

\* the value InterjumpTimes' fun returns at index k >= 0, where it divides
InterjumpTimesValue(k) ==
    Div(times[k], Rate(generator_matrix, StateOf(x(k))))

\* a negative index into the state sequence is a DomainError
SequenceIndexError(k) == k < 0

InterjumpTimes_fun(k) ==
    /\ pc = "idle"
    /\ kind = "ContinuousTimeMarkovChain"
    /\ op' = "InterjumpTimes"
    /\ arg' = k
    /\ IF SequenceIndexError(k)
       THEN /\ error' = Raise("DomainError", "negative index")
            /\ result' = <<>>
            /\ UNCHANGED rng
       ELSE LET run == x(k)
            IN  /\ rng' = run.rng
                /\ IF ~run.ok
                   THEN /\ error' = ChoiceError
                        /\ result' = <<>>
                   ELSE IF Rate(generator_matrix, StateOf(run)) = 0
                   THEN /\ error' = Raise("ZeroDivisionError", "division by zero")
                        /\ result' = <<>>
                   ELSE /\ result' = <<InterjumpTimesValue(k)>>
                        /\ error' = NoError
    /\ n' = 0
    /\ total_time' = 0
    /\ prev' = <<>>
    /\ UNCHANGED <<kind, generator_matrix, initial_dist, state_labels,
                   transition_matrix, seed, times, pc, state, path, returned>>

(* --------------------------- specification ---------------------------- *)
ConstructMarkovChain ==
    /\ pc = "new"
    /\ \E m \in Dims : \E tm \in TransitionMatrices(m) :
         \E dist \in InitialDists(m) : \E labels \in LabelChoices(m) :
           MarkovChain_init(tm, dist, labels)

ConstructCTMC ==
    /\ pc = "new"
    /\ \E m \in Dims : \E g \in Generators(m) :
         \E dist \in InitialDists(m) : \E labels \in LabelChoices(m) :
           CTMC_init(g, dist, labels)

Draw ==
    /\ pc = "built"
    /\ \E s \in Seeds :
         \E h \in (IF kind = "MarkovChain" THEN {NoTimes} ELSE HoldingDraws) :
           ProbSpace_draw(s, h)

QueryState ==
    /\ pc = "idle"
    /\ \E k \in 0..MaxN : MarkovChain_fun(k)

EvalStart ==
    /\ pc = "idle"
    /\ \E t \in (0 - 1)..MaxT : CTMC_fun_enter(t)

EvalJumpTimes ==
    /\ pc = "idle"
    /\ \E k \in (0 - 1)..MaxN : JumpTimes_fun(k)

EvalInterjumpTimes ==
    /\ pc = "idle"
    /\ \E k \in (0 - 1)..MaxN : InterjumpTimes_fun(k)

Next ==
    \/ ConstructMarkovChain
    \/ ConstructCTMC
    \/ Draw
    \/ ExponentialDraw
    \/ QueryState
    \/ EvalStart
    \/ LoopStep
    \/ EvalJumpTimes
    \/ EvalInterjumpTimes

Spec == Init /\ [][Next]_vars

\* the discrete-time chain alone
NextChain ==
    \/ ConstructMarkovChain
    \/ Draw
    \/ ExponentialDraw
    \/ QueryState

SpecChain == Init /\ [][NextChain]_vars

\* the continuous-time chain and its evaluation rule alone
NextEval ==
    \/ ConstructCTMC
    \/ Draw
    \/ EvalStart
    \/ LoopStep

SpecEval == Init /\ [][NextEval]_vars

\* the evaluation rule runs synchronously: a started loop keeps iterating
FairSpec == SpecEval /\ WF_vars(LoopStep)

(* ------------------------------ claims -------------------------------- *)
IsCTMC == kind = "ContinuousTimeMarkovChain"

Completed(o) == pc = "idle" /\ op = o

Returned(o) == Completed(o) /\ result # <<>>

AllRatesPositive ==
    \A s \in DOMAIN generator_matrix : Rate(generator_matrix, s) > 0

\* times[i] / rate(states[i]), in units of 1/Scale
ScaledHolding(i) == Div(times[i], Rate(generator_matrix, StateOf(x(i))))

RECURSIVE CumTime(_)
CumTime(k) == IF k < 0 THEN 0 ELSE CumTime(k - 1) + ScaledHolding(k)

RECURSIVE SumInterjump(_)
SumInterjump(k) ==
    IF k <= 0 THEN 0 ELSE SumInterjump(k - 1) + InterjumpTimesValue(k - 1)

ValidGenerator(g) ==
    \A i \in DOMAIN g :
        /\ Sum(g[i]) = 0
        /\ g[i][i] <= 0
        /\ \A j \in DOMAIN g[i] : j # i => g[i][j] >= 0

\* C1: JumpTimes at index n equals the sum of InterjumpTimes at 0..n-1 on
\* the same outcome (0 for n = 0).
C1_JumpTimesIsSumOfInterjumpTimes ==
    (Returned("JumpTimes") /\ arg >= 0 /\ AllRatesPositive)
        => result[1] = SumInterjump(arg)

\* C2: with non-negative holding draws, JumpTimes at n is at most JumpTimes
\* at n + 1.
C2_JumpTimesNonDecreasing ==
    (Returned("JumpTimes") /\ arg >= 0 /\ arg < MaxN /\ AllRatesPositive)
        => result[1] <= JumpTimesValue(arg + 1)

\* C3: the chain evaluated at t = 0 returns the initial state states[0] (its
\* label when state_labels is given), for every outcome.
C3_TimeZeroReturnsInitialState ==
    (Returned("at") /\ arg = 0) => result[1] = Label(StateOf(x(0)))

StopsAtLeastIndex ==
    /\ n <= MaxN =>
          /\ CumTime(n) > arg * Scale
          /\ \A k \in 0..(n - 1) : CumTime(k) <= arg * Scale
    /\ n > MaxN => CumTime(MaxN) <= arg * Scale

StopIndexMonotone ==
    (prev # <<>> /\ prev[1] >= 0) =>
        /\ prev[1] < arg => prev[2] <= n
        /\ arg < prev[1] => n <= prev[2]

\* C4: an evaluation at t >= 0 stops at the least index whose cumulative
\* holding time is strictly greater than t, and of two evaluations of one
\* outcome the one at the smaller time stops at the smaller or equal index.
C4_StopIndexLeastAndMonotone ==
    (Returned("at") /\ arg >= 0) => (StopsAtLeastIndex /\ StopIndexMonotone)

\* an evaluation that passed a tie (cumulative time equal to t) and stopped
\* later than the evaluation at a smaller time before it
C4_Witness ==
    /\ Returned("at")
    /\ prev # <<>>
    /\ prev[1] >= 0
    /\ prev[1] < arg
    /\ prev[2] < n
    /\ n <= MaxN
    /\ CumTime(n - 1) = arg * Scale

\* C5: construction fails exactly when the generator matrix is invalid (a
\* row that does not sum to 0, a positive diagonal entry or a negative
\* off-diagonal entry), and it fails before an embedded chain is built.
C5_ConstructionFailsExactlyOnInvalidGenerator ==
    (IsCTMC /\ pc # "new") =>
        /\ (pc = "failed") <=> ~ValidGenerator(generator_matrix)
        /\ pc = "failed" => transition_matrix = <<>>

\* C6: for every generator matrix that passes validation, an all-zero row
\* included, construction completes with P[i][i] = 0 and
\* P[i][j] = generator[i][j] / (-generator[i][i]) for j # i.
C6_ValidGeneratorYieldsEmbeddedMatrix ==
    (IsCTMC /\ pc # "new" /\ ValidGenerator(generator_matrix)) =>
        /\ pc # "failed"
        /\ \A i \in DOMAIN generator_matrix :
              \A j \in DOMAIN generator_matrix :
                 IF j = i THEN transition_matrix[i][j] = 0
                 ELSE transition_matrix[i][j] * Rate(generator_matrix, i)
                         = generator_matrix[i][j] * Scale

\* C7: an evaluation at a negative time or index raises DomainError and
\* returns no value.
C7_NegativeQueryRaisesDomainError ==
    (pc = "idle" /\ op \in {"at", "JumpTimes", "InterjumpTimes"} /\ arg < 0)
        => (result = <<>> /\ error.type = "DomainError")

\* C8: within one draw, every query of index n returns the value first
\* returned for n, the state visited at step k <= n is the value returned
\* for k, and the value returned for n + 1 is the value at n advanced by one
\* seeded transition.
C8_QueriesFollowOneTrajectory ==
    Returned("x") =>
        /\ result = returned[arg]
        /\ \A k \in 0..arg :
              returned[k] # <<>> => returned[k][1] = Label(path[k + 1])
        /\ (arg < MaxN /\ returned[arg + 1] # <<>>) =>
              returned[arg + 1][1] =
                  Label(Choice(transition_matrix[path[arg + 1]], NextRng(rng)))

\* a query of an index between two indexes queried before it, on a path
\* that changes state
C8_Witness ==
    /\ Returned("x")
    /\ arg >= 1
    /\ arg < MaxN
    /\ returned[arg - 1] # <<>>
    /\ returned[arg + 1] # <<>>
    /\ path[arg] # path[arg + 1]
    /\ returned[arg + 1] # returned[arg]

EvaluationOps == {"x", "at", "JumpTimes", "InterjumpTimes"}

\* C9: evaluating a process on a drawn outcome leaves the process-wide
\* random-number-generator state unchanged.
C9_EvaluationLeavesRngUnchanged ==
    [][(pc \in {"idle", "loop"} /\ op' \in EvaluationOps) => rng' = rng]_vars

\* C10: the accumulation loop of an evaluation terminates.
C10_EvaluationTerminates == (pc = "loop") ~> (pc = "idle")

====
